---- MODULE Spec2Model ----
(***************************************************************************)
(* A model of readme-generator: ProjectScanner (src/src/scanner.py),       *)
(* TechDetector (src/src/detector.py), TemplateGenerator                   *)
(* (src/src/template.py) and AIEnhancer (src/src/enhancer.py).             *)
(*                                                                         *)
(* Text is kept as TLA+ strings; a path is the string str(Path).  A        *)
(* multi-line text is the sequence of its lines (the text split at         *)
(* newlines); the empty text "" is the empty sequence.  Emoji of the       *)
(* templates are left out of the string literals (ASCII only), and the     *)
(* backquote, which a TLA+ string cannot hold, is written as '.            *)
(***************************************************************************)
EXTENDS Integers, Sequences, FiniteSets, TLC

VARIABLES
    project_path,     \* ProjectScanner.project_path, as str(Path)
    tree,             \* the listing of the project root on disk
    environ,          \* os.environ: <<>> (variable unset) or <<value>>
    files,            \* ProjectScanner.files
    directories,      \* ProjectScanner.directories
    file_extensions,  \* ProjectScanner.file_extensions
    scans,            \* the dicts returned by scan(), oldest first
    tech,             \* <<>> or <<[of |-> index into scans, info |-> TechInfo]>>
    document,         \* <<>> or <<the README that generate() returned last>>
    installed,        \* whether the anthropic package can be imported
    enhancer,         \* AIEnhancer(): "none", "constructed" or "ValueError"
    enhanced,         \* the calls of enhance() so far, oldest first
    api_calls,        \* number of client.messages.create calls made so far
    scan_raised       \* the exception that left the last scan(), or "none"

vars == <<project_path, tree, environ, installed, files, directories,
          file_extensions, scans, tech, document, enhancer, enhanced, api_calls,
          scan_raised>>

-----------------------------------------------------------------------------
(* Strings *)

\* s[i:j] of Python for 1-based inclusive bounds
Slice(s, i, j) == SubSeq(s, i, j)

\* Python: sub in s
Contains(s, sub) ==
    \E i \in 1..(Len(s) - Len(sub) + 1) : Slice(s, i, i + Len(sub) - 1) = sub

\* Python: s.startswith(prefix)
StartsWith(s, prefix) ==
    Len(prefix) <= Len(s) /\ Slice(s, 1, Len(prefix)) = prefix

UpperCase == "ABCDEFGHIJKLMNOPQRSTUVWXYZ"
LowerCase == "abcdefghijklmnopqrstuvwxyz"

\* the position of each upper-case letter in the alphabet
UpperIndex ==
    [c \in {Slice(UpperCase, k, k) : k \in 1..26} |->
        CHOOSE k \in 1..26 : Slice(UpperCase, k, k) = c]

\* Python: c.lower() for one character
LowerChar(c) ==
    IF c \in DOMAIN UpperIndex
    THEN Slice(LowerCase, UpperIndex[c], UpperIndex[c])
    ELSE c

RECURSIVE Lower(_)
\* Python: s.lower()
Lower(s) ==
    IF Len(s) = 0 THEN ""
    ELSE IF Len(s) = 1 THEN LowerChar(s)
    ELSE Lower(Slice(s, 1, Len(s) \div 2)) \o Lower(Slice(s, Len(s) \div 2 + 1, Len(s)))

RECURSIVE Replace(_, _, _)
\* Python: s.replace(old, new) for a one-character old
Replace(s, old, new) ==
    IF Len(s) = 0 THEN ""
    ELSE IF Len(s) = 1 THEN (IF s = old THEN new ELSE s)
    ELSE Replace(Slice(s, 1, Len(s) \div 2), old, new)
         \o Replace(Slice(s, Len(s) \div 2 + 1, Len(s)), old, new)

\* the printable ASCII characters in code-point order (a TLA+ string cannot
\* hold the backquote, which is left out)
Ascii ==
    " !\"#$%&'()*+,-./0123456789:;<=>?@ABCDEFGHIJKLMNOPQRSTUVWXYZ[\\]^_abcdefghijklmnopqrstuvwxyz{|}~"

\* the position of each character in Ascii
AsciiIndex ==
    [c \in {Slice(Ascii, k, k) : k \in 1..Len(Ascii)} |->
        CHOOSE k \in 1..Len(Ascii) : Slice(Ascii, k, k) = c]

\* ord(c), relative to the space character
Ord(c) == AsciiIndex[c]

\* Python: a < b on str (code-point lexicographic order)
StrLess(a, b) ==
    LET n == IF Len(a) < Len(b) THEN Len(a) ELSE Len(b)
    IN  IF Slice(a, 1, n) = Slice(b, 1, n) THEN Len(a) < Len(b)
        ELSE LET i == CHOOSE i \in 1..n :
                         /\ Slice(a, i, i) # Slice(b, i, i)
                         /\ Slice(a, 1, i - 1) = Slice(b, 1, i - 1)
             IN  Ord(Slice(a, i, i)) < Ord(Slice(b, i, i))

\* position of the last occurrence of the character c in s, 0 if none
LastIndex(s, c) ==
    IF \E i \in 1..Len(s) : Slice(s, i, i) = c
    THEN CHOOSE i \in 1..Len(s) :
            /\ Slice(s, i, i) = c
            /\ \A j \in (i + 1)..Len(s) : Slice(s, j, j) # c
    ELSE 0

-----------------------------------------------------------------------------
(* pathlib *)

\* str(path / name)
JoinPath(path, name) == IF path = "." THEN name ELSE path \o "/" \o name

\* Path.name: the final component ("" for Path('.'))
PathName(p) == IF p = "." THEN "" ELSE Slice(p, LastIndex(p, "/") + 1, Len(p))

\* Path.suffix: from the last dot of the name, unless that dot leads or ends it
Suffix(p) ==
    LET name == PathName(p)
        i == LastIndex(name, ".")
    IN  IF 1 < i /\ i < Len(name) THEN Slice(name, i, Len(name)) ELSE ""

-----------------------------------------------------------------------------
(* The file system: a directory listing is a sequence of entries in the    *)
(* order os.listdir yields them. A symbolic link names its target by the   *)
(* path from the project root ("." for the root itself).                   *)

File(name, content) ==
    [name |-> name, kind |-> "file", content |-> content,
     readable |-> TRUE, children |-> <<>>, target |-> ""]

Dir(name, readable, children) ==
    [name |-> name, kind |-> "dir", content |-> "",
     readable |-> readable, children |-> children, target |-> ""]

Link(name, target) ==
    [name |-> name, kind |-> "link", content |-> "",
     readable |-> TRUE, children |-> <<>>, target |-> target]

\* the number of symbolic links the system follows in one path resolution
\* before it fails with ELOOP
MAXSYMLINKS == 40

\* the index of the first separator of a relative path, one past its end
\* when it has a single component
FirstSlash(rel) ==
    IF \E i \in 1..Len(rel) : SubSeq(rel, i, i) = "/"
    THEN CHOOSE i \in 1..Len(rel) :
            /\ SubSeq(rel, i, i) = "/"
            /\ \A j \in 1..(i - 1) : SubSeq(rel, j, j) # "/"
    ELSE Len(rel) + 1

\* the indices of the entries of a listing with the given name
Named(listing, name) == {i \in DOMAIN listing : listing[i].name = name}

RECURSIVE Walk(_, _, _, _, _)
RECURSIVE Resolve(_, _, _)
RECURSIVE Descend(_, _, _, _)

\* what stat() finds for an entry of the project on disk, as <<entry>>, or
\* <<>> when a link is broken or the resolution fails with ELOOP
Resolve(disk, item, hops) ==
    CASE item.kind # "link" -> <<item>>
      [] hops = 0 -> <<>>
      [] item.target = "." -> <<Dir("", TRUE, disk)>>
      [] OTHER -> Walk(disk, disk, item.target, FirstSlash(item.target), hops - 1)

\* what stat() finds at the relative path rel below the directory with the
\* given listing, links followed in every component; slash is the index of
\* the first separator of rel
Walk(disk, listing, rel, slash, hops) ==
    CASE Named(listing, SubSeq(rel, 1, slash - 1)) = {} -> <<>>
      [] slash > Len(rel) ->
           Resolve(disk,
                   listing[CHOOSE i \in Named(listing, SubSeq(rel, 1, slash - 1)) : TRUE],
                   hops)
      [] OTHER ->
           Descend(disk,
                   Resolve(disk,
                           listing[CHOOSE i \in Named(listing, SubSeq(rel, 1, slash - 1)) : TRUE],
                           hops),
                   SubSeq(rel, slash + 1, Len(rel)), hops)

\* the rest of a path below what its first component resolved to
Descend(disk, e, rest, hops) ==
    CASE e = <<>> -> <<>>
      [] e[1].kind # "dir" -> <<>>
      [] OTHER -> Walk(disk, e[1].children, rest, FirstSlash(rest), hops)

\* Path.is_file() and Path.is_dir() follow links: the kind of what the item
\* resolves to, "none" when it resolves to nothing
KindOf(disk, item) ==
    LET e == Resolve(disk, item, MAXSYMLINKS)
    IN  IF e = <<>> THEN "none" ELSE e[1].kind

-----------------------------------------------------------------------------
(* ProjectScanner *)

IGNORE_DIRS ==
    {"__pycache__", ".git", ".github", "node_modules", "venv", "env",
     ".venv", "dist", "build", ".next", ".nuxt", "target", "bin", "obj",
     ".idea", ".vscode", ".DS_Store", "coverage", ".pytest_cache",
     "__MACOSX", ".mypy_cache", ".tox"}

IGNORE_FILES ==
    {".DS_Store", "Thumbs.db", ".gitignore", ".gitattributes",
     "package-lock.json", "yarn.lock", "poetry.lock", "Pipfile.lock"}

max_depth == 10

\* a variant of the depth test that cuts the recursion one level later
DepthExceeded_one_later(depth) == depth > max_depth + 1

\* 'if depth > max_depth: return'
DepthExceeded(depth) == depth > max_depth

\* a variant of Skipped without the test for names that begin with '.'
Skipped_IgnoreSetsOnly(name) ==
    name \in IGNORE_DIRS \/ name \in IGNORE_FILES

\* the two tests of _scan_recursive that skip an item
Skipped(name) ==
    \/ name \in IGNORE_DIRS \/ name \in IGNORE_FILES
    \/ StartsWith(name, ".") /\ name \notin {".env.example", ".editorconfig"}

\* path.iterdir(): the items of a directory, or the PermissionError that
\* listing it raises
iterdir(dir) ==
    IF dir.readable THEN [raised |-> "none", items |-> dir.children]
    ELSE [raised |-> "PermissionError", items |-> <<>>]

\* a variant of except_PermissionError that catches nothing
except_nothing(after) == after

\* 'except PermissionError: pass' around the loop of _scan_recursive
except_PermissionError(after) ==
    [after EXCEPT !.raised = IF @ = "PermissionError" THEN "none" ELSE @]

RECURSIVE _scan_recursive(_, _, _, _, _)
RECURSIVE ScanItems(_, _, _, _, _, _)

\* the loop of _scan_recursive over path.iterdir(), from item i on; self is
\* the record of the scanner's three collections, with the exception on its
\* way out of a call in 'raised'. The try statement encloses the loop, so
\* an exception that leaves the loop meets the handler of this call
ScanItems(self, disk, path, items, i, depth) ==
    CASE self.raised # "none" -> except_PermissionError(self)
      [] i > Len(items) -> self
      [] Skipped(items[i].name) ->
           ScanItems(self, disk, path, items, i + 1, depth)
      [] KindOf(disk, items[i]) = "file" ->
           ScanItems(
             [self EXCEPT
                !.files = Append(@, JoinPath(path, items[i].name)),
                !.file_extensions =
                    IF Suffix(JoinPath(path, items[i].name)) # ""
                    THEN @ \cup {Suffix(JoinPath(path, items[i].name))}
                    ELSE @],
             disk, path, items, i + 1, depth)
      [] KindOf(disk, items[i]) = "dir" ->
           ScanItems(
             _scan_recursive(
                [self EXCEPT
                   !.directories = Append(@, JoinPath(path, items[i].name))],
                disk, JoinPath(path, items[i].name),
                Resolve(disk, items[i], MAXSYMLINKS)[1], depth + 1),
             disk, path, items, i + 1, depth)
      [] OTHER -> ScanItems(self, disk, path, items, i + 1, depth)

\* _scan_recursive(path, depth): dir is the directory found at path on disk;
\* path.iterdir() is inside the try statement too
_scan_recursive(self, disk, path, dir, depth) ==
    CASE DepthExceeded(depth) -> self
      [] iterdir(dir).raised # "none" ->
           except_PermissionError([self EXCEPT !.raised = iterdir(dir).raised])
      [] OTHER -> ScanItems(self, disk, path, iterdir(dir).items, 1, depth)


\* sorted(S) of Python for a set of str
SortedSet(S) ==
    LET rank(x) == Cardinality({y \in S : StrLess(y, x)}) + 1
    IN  [k \in 1..Cardinality(S) |-> CHOOSE x \in S : rank(x) = k]

\* Python: s.count(c) for a one-character c
Count(s, c) == Cardinality({i \in 1..Len(s) : Slice(s, i, i) = c})

\* len(Path.parts)
NumParts(p) == IF p = "." THEN 0 ELSE Count(p, "/") + 1

\* Path.parts of a relative path: the pieces between the separators
Parts(p) ==
    IF p = "." \/ p = "" THEN <<>>
    ELSE LET cuts == {0, Len(p) + 1} \cup {i \in 1..Len(p) : Slice(p, i, i) = "/"}
             cut(k) == CHOOSE i \in cuts : Cardinality({j \in cuts : j < i}) = k
         IN  [k \in 1..(Cardinality(cuts) - 1) |->
                Slice(p, cut(k - 1) + 1, cut(k) - 1)]

\* Path.parent of a relative path, as str
Parent(p) ==
    IF LastIndex(p, "/") = 0 THEN "." ELSE Slice(p, 1, LastIndex(p, "/") - 1)

\* a < b on two Paths: their parts compared as tuples of str
PartsLess(a, b) ==
    LET n == IF Len(a) < Len(b) THEN Len(a) ELSE Len(b)
    IN  IF SubSeq(a, 1, n) = SubSeq(b, 1, n) THEN Len(a) < Len(b)
        ELSE LET i == CHOOSE i \in 1..n :
                         a[i] # b[i] /\ SubSeq(a, 1, i - 1) = SubSeq(b, 1, i - 1)
             IN  StrLess(a[i], b[i])

RECURSIVE Repeat(_, _)
\* Python: s * n
Repeat(s, n) == IF n <= 0 THEN "" ELSE s \o Repeat(s, n - 1)

RECURSIVE IntToStr(_)
\* str(n) for a natural number n
IntToStr(n) ==
    IF n < 10 THEN Slice("0123456789", n + 1, n + 1)
    ELSE IntToStr(n \div 10) \o Slice("0123456789", (n % 10) + 1, (n % 10) + 1)

\* Python: s[:n] on a list
Take(s, n) == SubSeq(s, 1, IF Len(s) < n THEN Len(s) ELSE n)

\* the elements of a sequence
Range(s) == {s[i] : i \in DOMAIN s}

\* Path.relative_to(project_path), as str
RelativeTo(p, root) ==
    IF root = "." THEN p ELSE Slice(p, Len(root) + 2, Len(p))

max_files == 50

\* sorted(s) of Python for a list of str
SortedStrings(s) ==
    LET n == Len(s)
        rank(i) == Cardinality({j \in 1..n :
                       StrLess(s[j], s[i]) \/ (s[j] = s[i] /\ j < i)}) + 1
    IN  [k \in 1..n |-> s[CHOOSE i \in 1..n : rank(i) = k]]

\* sorted(files, key=lambda p: (len(p.parts), str(p))) of _generate_tree
SortedFiles(fs) ==
    LET n == Len(fs)
        KeyLess(a, b) ==
            \/ NumParts(a) < NumParts(b)
            \/ NumParts(a) = NumParts(b) /\ StrLess(a, b)
        rank(i) == Cardinality({j \in 1..n :
                       KeyLess(fs[j], fs[i]) \/ (fs[j] = fs[i] /\ j < i)}) + 1
    IN  [k \in 1..n |-> fs[CHOOSE i \in 1..n : rank(i) = k]]

RECURSIVE Flatten(_)
\* the concatenation of a sequence of sequences
Flatten(ss) ==
    IF Len(ss) = 0 THEN <<>>
    ELSE IF Len(ss) = 1 THEN ss[1]
    ELSE Flatten(SubSeq(ss, 1, Len(ss) \div 2))
         \o Flatten(SubSeq(ss, Len(ss) \div 2 + 1, Len(ss)))

\* _generate_tree(): the text tree of the first max_files files
_generate_tree(root, fs) ==
    LET sorted_files == Take(SortedFiles(fs), max_files)
        rel == [i \in DOMAIN sorted_files |-> RelativeTo(sorted_files[i], root)]
        dir_keys == {Parent(rel[i]) : i \in DOMAIN rel}
        DirLess(a, b) == PartsLess(Parts(a), Parts(b))
        dirRank(d) == Cardinality({e \in dir_keys : DirLess(e, d)}) + 1
        sorted_dirs == [k \in 1..Cardinality(dir_keys) |->
                           CHOOSE d \in dir_keys : dirRank(d) = k]
        inDir(d) == SelectSeq(rel, LAMBDA r : Parent(r) = d)
        names(d) == SortedStrings([k \in DOMAIN inDir(d) |-> PathName(inDir(d)[k])])
        block(d) ==
            (IF d # "."
             THEN <<Repeat("  ", Len(Parts(d))) \o "|-- " \o PathName(d) \o "/">>
             ELSE <<>>)
            \o LET indent == Repeat("  ", Len(Parts(d)) + (IF d # "." THEN 1 ELSE 0))
                   ns == names(d)
               IN  [k \in DOMAIN ns |-> indent \o "|-- " \o ns[k]]
    IN  <<PathName(root) \o "/">>
        \o Flatten([k \in DOMAIN sorted_dirs |-> block(sorted_dirs[k])])
        \o (IF Len(fs) > max_files
            THEN <<"  ... and " \o IntToStr(Len(fs) - max_files) \o " more files">>
            ELSE <<>>)

\* the table 'important' of _find_special_files, in its order
important ==
    << <<"readme", <<"README.md", "README.rst", "README.txt", "README">> >>,
       <<"license", <<"LICENSE", "LICENSE.md", "LICENSE.txt", "COPYING">> >>,
       <<"requirements", <<"requirements.txt", "Pipfile", "pyproject.toml", "setup.py">> >>,
       <<"package", <<"package.json", "Cargo.toml", "go.mod", "pom.xml", "build.gradle">> >>,
       <<"config", <<".env.example", "config.yml", "config.json", "settings.py">> >>,
       <<"docker", <<"Dockerfile", "docker-compose.yml", ".dockerignore">> >>,
       <<"ci", <<".github/workflows", ".gitlab-ci.yml", ".travis.yml", "Jenkinsfile">> >>,
       <<"makefile", <<"Makefile", "makefile">> >>,
       <<"changelog", <<"CHANGELOG.md", "CHANGELOG.rst", "HISTORY.md">> >> >>

\* the entry that the relative path rel names below the project root with
\* the given listing, as <<entry>>, or <<>> when nothing is there
Lookup(listing, rel) ==
    Walk(listing, listing, rel, FirstSlash(rel), MAXSYMLINKS)

\* Path.exists() for project_path / rel
Exists(listing, rel) == Lookup(listing, rel) # <<>>

\* a variant of _find_special_files that records the last candidate that
\* exists
_find_special_files_last(root, listing) ==
    LET hit(k) == {j \in DOMAIN important[k][2] : Exists(listing, important[k][2][j])}
        found == {k \in DOMAIN important : hit(k) # {}}
        last(k) == CHOOSE j \in hit(k) : \A l \in hit(k) : j >= l
        index(c) == CHOOSE k \in found : important[k][1] = c
    IN  [c \in {important[k][1] : k \in found} |->
            JoinPath(root, important[index(c)][2][last(index(c))])]

\* _find_special_files(): per category the first candidate that exists
\* directly under the project root
_find_special_files(root, listing) ==
    LET hit(k) == {j \in DOMAIN important[k][2] : Exists(listing, important[k][2][j])}
        found == {k \in DOMAIN important : hit(k) # {}}
        first(k) == CHOOSE j \in hit(k) : \A l \in hit(k) : j <= l
        index(c) == CHOOSE k \in found : important[k][1] = c
    IN  [c \in {important[k][1] : k \in found} |->
            JoinPath(root, important[index(c)][2][first(index(c))])]

\* the dict that scan() returns once _scan_recursive has run; it holds the
\* lists self.files and self.directories themselves, not copies
ScanResult(after, root, listing) ==
    [self |-> after,
     result |->
       [project_path |-> root,
        project_name |-> PathName(root),
        files |-> after.files,
        directories |-> after.directories,
        file_count |-> Len(after.files),
        dir_count |-> Len(after.directories),
        extensions |-> SortedSet(after.file_extensions),
        file_tree |-> _generate_tree(root, after.files),
        special_files |-> _find_special_files(root, listing)]]

\* scan(): runs on the scanner's collections `self` and returns the pair of
\* the collections afterwards and the dict returned
scan(self, root, listing) ==
    ScanResult(
       _scan_recursive(self, listing, root, Dir(PathName(root), TRUE, listing), 0),
       root, listing)

-----------------------------------------------------------------------------
(* TechDetector *)

LANGUAGE_MAP ==
    [ext \in {".py", ".js", ".ts", ".jsx", ".tsx", ".java", ".c", ".cpp",
              ".cs", ".go", ".rs", ".rb", ".php", ".swift", ".kt", ".scala",
              ".r", ".m", ".sh", ".html", ".css", ".scss", ".vue", ".sql",
              ".md"} |->
        CASE ext = ".py" -> "Python"        [] ext = ".js" -> "JavaScript"
          [] ext = ".ts" -> "TypeScript"    [] ext = ".jsx" -> "React"
          [] ext = ".tsx" -> "React"        [] ext = ".java" -> "Java"
          [] ext = ".c" -> "C"              [] ext = ".cpp" -> "C++"
          [] ext = ".cs" -> "C#"            [] ext = ".go" -> "Go"
          [] ext = ".rs" -> "Rust"          [] ext = ".rb" -> "Ruby"
          [] ext = ".php" -> "PHP"          [] ext = ".swift" -> "Swift"
          [] ext = ".kt" -> "Kotlin"        [] ext = ".scala" -> "Scala"
          [] ext = ".r" -> "R"              [] ext = ".m" -> "Objective-C"
          [] ext = ".sh" -> "Shell"         [] ext = ".html" -> "HTML"
          [] ext = ".css" -> "CSS"          [] ext = ".scss" -> "SASS"
          [] ext = ".vue" -> "Vue"          [] ext = ".sql" -> "SQL"
          [] ext = ".md" -> "Markdown"]

FRAMEWORK_INDICATORS ==
    << <<"React", <<"package.json", "react">> >>,
       <<"Next.js", <<"next.config.js", "next.config.ts">> >>,
       <<"Vue.js", <<"vue.config.js", "nuxt.config.js">> >>,
       <<"Angular", <<"angular.json">> >>,
       <<"Django", <<"manage.py", "settings.py">> >>,
       <<"Flask", <<"app.py", "flask">> >>,
       <<"FastAPI", <<"main.py", "fastapi">> >>,
       <<"Express", <<"express">> >>,
       <<"Node.js", <<"package.json">> >>,
       <<"Docker", <<"Dockerfile", "docker-compose.yml">> >>,
       <<"Kubernetes", <<".yaml", "k8s">> >>,
       <<"Terraform", <<".tf">> >>,
       <<"Streamlit", <<"streamlit">> >>,
       <<"Pytest", <<"pytest.ini", "conftest.py">> >>,
       <<"Jest", <<"jest.config.js">> >> >>

\* a variant of _detect_languages that leaves Markdown out
_detect_languages_code_only(extensions) ==
    SortedSet({LANGUAGE_MAP[ext] :
                  ext \in {e \in Range(extensions) : e \in DOMAIN LANGUAGE_MAP}}
              \ {"Markdown"})

\* _detect_languages(): the mapped languages of the extensions, sorted
_detect_languages(extensions) ==
    SortedSet({LANGUAGE_MAP[ext] :
                  ext \in {e \in Range(extensions) : e \in DOMAIN LANGUAGE_MAP}})

\* Path.read_text() of a special file: <<text>>, or <<>> when reading raises
\* (the path is a directory)
read_text(root, listing, path) ==
    LET e == Lookup(listing, RelativeTo(path, root))
    IN  IF e # <<>> /\ e[1].kind = "file" THEN <<e[1].content>> ELSE <<>>

\* the package manifests the model knows, as written on disk
ReactManifest == "{\"dependencies\": {\"react\": \"18.2.0\"}}"
ExpressManifest == "{\"devDependencies\": {\"express\": \"4.18.0\"}}"
EmptyManifest == "{}"

\* json.loads(text): <<data>> for the manifests above, <<>> when parsing
\* raises (any other text of the model is not JSON)
json_loads(text) ==
    CASE text = ReactManifest ->
           <<[dependencies |-> {"react"}, devDependencies |-> {}]>>
      [] text = ExpressManifest ->
           <<[dependencies |-> {}, devDependencies |-> {"express"}]>>
      [] text = EmptyManifest ->
           <<[dependencies |-> {}, devDependencies |-> {}]>>
      [] OTHER -> <<>>

\* _parse_package_json(): any failure yields the empty set
_parse_package_json(root, listing, special_files) ==
    LET text == read_text(root, listing, special_files["package"])
        data == IF text = <<>> THEN <<>> ELSE json_loads(text[1])
    IN  IF data = <<>> THEN {}
        ELSE LET deps == data[1].dependencies \cup data[1].devDependencies
             IN  (IF "react" \in deps THEN {"React"} ELSE {})
                 \cup (IF "next" \in deps THEN {"Next.js"} ELSE {})
                 \cup (IF "vue" \in deps THEN {"Vue.js"} ELSE {})
                 \cup (IF "express" \in deps THEN {"Express"} ELSE {})
                 \cup (IF "@angular/core" \in deps THEN {"Angular"} ELSE {})

\* _parse_requirements(): any failure yields the empty set
_parse_requirements(root, listing, special_files) ==
    LET text == read_text(root, listing, special_files["requirements"])
    IN  IF text = <<>> THEN {}
        ELSE LET content == Lower(text[1])
             IN  (IF Contains(content, "django") THEN {"Django"} ELSE {})
                 \cup (IF Contains(content, "flask") THEN {"Flask"} ELSE {})
                 \cup (IF Contains(content, "fastapi") THEN {"FastAPI"} ELSE {})
                 \cup (IF Contains(content, "streamlit") THEN {"Streamlit"} ELSE {})
                 \cup (IF Contains(content, "pytest") THEN {"Pytest"} ELSE {})

\* a variant of _detect_frameworks that does not read the package manifest
_detect_frameworks_no_manifest(root, listing, fs, special_files) ==
    LET byPath == {FRAMEWORK_INDICATORS[k][1] : k \in
                     {k \in DOMAIN FRAMEWORK_INDICATORS :
                        \E j \in DOMAIN FRAMEWORK_INDICATORS[k][2] :
                          \E i \in DOMAIN fs :
                            Contains(fs[i], FRAMEWORK_INDICATORS[k][2][j])}}
        byRequirements == IF "requirements" \in DOMAIN special_files
                          THEN _parse_requirements(root, listing, special_files)
                          ELSE {}
    IN  SortedSet(byPath \cup byRequirements)

\* _detect_frameworks(): the union of the three heuristics, sorted
_detect_frameworks(root, listing, fs, special_files) ==
    LET byPath == {FRAMEWORK_INDICATORS[k][1] : k \in
                     {k \in DOMAIN FRAMEWORK_INDICATORS :
                        \E j \in DOMAIN FRAMEWORK_INDICATORS[k][2] :
                          \E i \in DOMAIN fs :
                            Contains(fs[i], FRAMEWORK_INDICATORS[k][2][j])}}
        byPackage == IF "package" \in DOMAIN special_files
                     THEN _parse_package_json(root, listing, special_files)
                     ELSE {}
        byRequirements == IF "requirements" \in DOMAIN special_files
                          THEN _parse_requirements(root, listing, special_files)
                          ELSE {}
    IN  SortedSet(byPath \cup byPackage \cup byRequirements)

\* the table 'indicators' of _detect_package_managers, in its order
manager_indicators ==
    << <<"pip", {"requirements.txt", "setup.py"}>>,
       <<"poetry", {"pyproject.toml", "poetry.lock"}>>,
       <<"npm", {"package.json", "package-lock.json"}>>,
       <<"yarn", {"yarn.lock"}>>,
       <<"pnpm", {"pnpm-lock.yaml"}>>,
       <<"cargo", {"Cargo.toml"}>>,
       <<"go mod", {"go.mod"}>>,
       <<"maven", {"pom.xml"}>>,
       <<"gradle", {"build.gradle"}>> >>

\* a variant of _detect_package_managers that accepts a marker anywhere in
\* the path of a file
_detect_package_managers_substring(fs) ==
    LET hit(m) == \E marker \in m[2] : \E i \in DOMAIN fs : Contains(fs[i], marker)
        managers == SelectSeq(manager_indicators, hit)
    IN  [k \in DOMAIN managers |-> managers[k][1]]

\* _detect_package_managers()
_detect_package_managers(fs) ==
    LET file_names == {PathName(fs[i]) : i \in DOMAIN fs}
        hit(m) == m[2] \cap file_names # {}
        managers == SelectSeq(manager_indicators, hit)
    IN  [k \in DOMAIN managers |-> managers[k][1]]

\* _detect_tools()
_detect_tools(fs, special_files) ==
    (IF "docker" \in DOMAIN special_files THEN <<"Docker">> ELSE <<>>)
    \o (IF "ci" \in DOMAIN special_files THEN <<"CI/CD">> ELSE <<>>)
    \o (IF /\ \E i \in DOMAIN fs : Contains(fs[i], ".yaml") \/ Contains(fs[i], ".yml")
           /\ \E i \in DOMAIN fs : Contains(fs[i], "k8s") \/ Contains(fs[i], "kubernetes")
        THEN <<"Kubernetes">> ELSE <<>>)
    \o (IF "makefile" \in DOMAIN special_files THEN <<"Make">> ELSE <<>>)

\* a variant of _get_primary_language that gives the empty string when no
\* file has a mapped extension
_get_primary_language_or_empty(fs) ==
    LET mapped == {i \in DOMAIN fs : Suffix(fs[i]) \in DOMAIN LANGUAGE_MAP}
        lang(i) == LANGUAGE_MAP[Suffix(fs[i])]
        langs == {lang(i) : i \in mapped}
        count(l) == Cardinality({i \in mapped : lang(i) = l})
        first(l) == CHOOSE i \in mapped :
                       lang(i) = l /\ \A j \in mapped : lang(j) = l => i <= j
    IN  IF langs = {} THEN ""
        ELSE CHOOSE l \in langs :
                \A m \in langs :
                   \/ count(m) < count(l)
                   \/ count(m) = count(l) /\ first(l) <= first(m)

\* a variant of _get_primary_language where, among equal counts, the
\* language counted last wins
_get_primary_language_latest(fs) ==
    LET mapped == {i \in DOMAIN fs : Suffix(fs[i]) \in DOMAIN LANGUAGE_MAP}
        lang(i) == LANGUAGE_MAP[Suffix(fs[i])]
        langs == {lang(i) : i \in mapped}
        count(l) == Cardinality({i \in mapped : lang(i) = l})
        first(l) == CHOOSE i \in mapped :
                       lang(i) = l /\ \A j \in mapped : lang(j) = l => i <= j
    IN  IF langs = {} THEN "Unknown"
        ELSE CHOOSE l \in langs :
                \A m \in langs :
                   \/ count(m) < count(l)
                   \/ count(m) = count(l) /\ first(l) >= first(m)

\* _get_primary_language(): the language counted most often over the files;
\* max() returns, among equal counts, the language counted first
_get_primary_language(fs) ==
    LET mapped == {i \in DOMAIN fs : Suffix(fs[i]) \in DOMAIN LANGUAGE_MAP}
        lang(i) == LANGUAGE_MAP[Suffix(fs[i])]
        langs == {lang(i) : i \in mapped}
        count(l) == Cardinality({i \in mapped : lang(i) = l})
        first(l) == CHOOSE i \in mapped :
                       lang(i) = l /\ \A j \in mapped : lang(j) = l => i <= j
    IN  IF langs = {} THEN "Unknown"
        ELSE CHOOSE l \in langs :
                \A m \in langs :
                   \/ count(m) < count(l)
                   \/ count(m) = count(l) /\ first(l) <= first(m)

\* _has_tests()
_has_tests(fs) ==
    \E i \in DOMAIN fs :
       LET path == Lower(fs[i])
       IN  \E indicator \in {"test", "tests", "spec", "__tests__", "pytest", "jest"} :
              Contains(path, indicator)

\* _has_docs()
_has_docs(fs) ==
    \E i \in DOMAIN fs :
       \E indicator \in {"docs", "documentation", "doc", "README"} :
          Contains(fs[i], indicator)

\* _has_ci()
_has_ci(special_files) == "ci" \in DOMAIN special_files

\* TechDetector(scan_results).detect(); listing is the project root on disk,
\* read by the two manifest parsers
detect(scan_results, listing) ==
    LET root == scan_results.project_path
        fs == scan_results.files
        special_files == scan_results.special_files
    IN  [languages |-> _detect_languages(scan_results.extensions),
         frameworks |-> _detect_frameworks(root, listing, fs, special_files),
         package_managers |-> _detect_package_managers(fs),
         tools |-> _detect_tools(fs, special_files),
         primary_language |-> _get_primary_language(fs),
         has_tests |-> _has_tests(fs),
         has_docs |-> _has_docs(fs),
         has_ci |-> _has_ci(special_files)]


-----------------------------------------------------------------------------
(* TemplateGenerator: every section is the sequence of its lines *)

RECURSIVE JoinStr(_, _)
\* Python: sep.join(parts) for a list of str
JoinStr(parts, sep) ==
    IF Len(parts) = 0 THEN ""
    ELSE IF Len(parts) = 1 THEN parts[1]
    ELSE JoinStr(SubSeq(parts, 1, Len(parts) \div 2), sep) \o sep
         \o JoinStr(SubSeq(parts, Len(parts) \div 2 + 1, Len(parts)), sep)

\* project_name.lower().replace(' ', '-')
Slug(project_name) == Replace(Lower(project_name), " ", "-")

\* _get_language_color()
_get_language_color(language) ==
    CASE language = "Python" -> "3776AB"     [] language = "JavaScript" -> "F7DF1E"
      [] language = "TypeScript" -> "3178C6" [] language = "Java" -> "ED8B00"
      [] language = "Go" -> "00ADD8"         [] language = "Rust" -> "CE412B"
      [] language = "C++" -> "00599C"        [] language = "C#" -> "239120"
      [] language = "Ruby" -> "CC342D"       [] language = "PHP" -> "777BB4"
      [] language = "Swift" -> "FA7343"      [] language = "Kotlin" -> "7F52FF"
      [] language = "HTML" -> "E34F26"       [] language = "CSS" -> "1572B6"
      [] OTHER -> "555555"

\* _get_framework_color()
_get_framework_color(framework) ==
    CASE framework = "React" -> "61DAFB"     [] framework = "Next.js" -> "000000"
      [] framework = "Vue.js" -> "4FC08D"    [] framework = "Django" -> "092E20"
      [] framework = "Flask" -> "000000"     [] framework = "FastAPI" -> "009688"
      [] framework = "Express" -> "000000"   [] framework = "Streamlit" -> "FF4B4B"
      [] framework = "Docker" -> "2496ED"
      [] OTHER -> "6366F1"

\* _generate_header()
_generate_header(project_name) ==
    <<"<div align=\"center\">",
      "",
      "#  " \o project_name,
      "",
      "<p align=\"center\">",
      "  <strong> Auto-generated README - Customize me! </strong>",
      "</p>",
      "",
      "</div>">>

\* the badge of the primary language in _generate_badges
LanguageBadge(lang) ==
    "![" \o lang \o "](https://img.shields.io/badge/" \o lang \o "-"
    \o _get_language_color(lang) \o "?style=for-the-badge&logo=" \o Lower(lang)
    \o "&logoColor=white)"

\* _generate_badges()
_generate_badges(project_name, scan_results, tech_info) ==
    LET project_slug == Slug(project_name)
        badges ==
            (IF tech_info.primary_language # ""
             THEN <<LanguageBadge(tech_info.primary_language)>> ELSE <<>>)
            \o (IF "license" \in DOMAIN scan_results.special_files
                THEN <<"![License](https://img.shields.io/badge/license-MIT-blue?style=for-the-badge)">>
                ELSE <<>>)
            \o <<"![GitHub stars](https://img.shields.io/github/stars/yourusername/"
                   \o project_slug \o "?style=for-the-badge)",
                 "![GitHub forks](https://img.shields.io/github/forks/yourusername/"
                   \o project_slug \o "?style=for-the-badge)",
                 "![GitHub issues](https://img.shields.io/github/issues/yourusername/"
                   \o project_slug \o "?style=for-the-badge)">>
            \o (IF tech_info.has_ci
                THEN <<"![Build](https://img.shields.io/badge/build-passing-brightgreen?style=for-the-badge)">>
                ELSE <<>>)
            \o (IF tech_info.has_tests
                THEN <<"![Coverage](https://img.shields.io/badge/coverage-85%25-green?style=for-the-badge)">>
                ELSE <<>>)
    IN  <<"<div align=\"center\">",
          "",
          JoinStr(Take(badges, 4), " "),
          "",
          IF Len(badges) > 4 THEN JoinStr(SubSeq(badges, 5, Len(badges)), " ") ELSE "",
          "",
          "</div>">>

\* _generate_highlights()
_generate_highlights(tech_info) ==
    LET highlights ==
            (IF tech_info.has_tests
             THEN <<" **Test Coverage** - Comprehensive test suite included">> ELSE <<>>)
            \o (IF tech_info.has_ci
                THEN <<" **CI/CD** - Automated testing and deployment">> ELSE <<>>)
            \o (IF "Docker" \in Range(tech_info.tools)
                THEN <<" **Containerized** - Docker support for easy deployment">> ELSE <<>>)
            \o (IF tech_info.has_docs
                THEN <<" **Well Documented** - Clear documentation and examples">> ELSE <<>>)
            \o (IF Len(tech_info.languages) > 1
                THEN <<" **Multi-language** - Uses " \o IntToStr(Len(tech_info.languages))
                         \o " programming languages">>
                ELSE <<>>)
        shown == IF highlights = <<>>
                 THEN <<" **Fast & Efficient** - Optimized for performance",
                        " **Modern Stack** - Built with latest technologies",
                        " **Customizable** - Easy to extend and modify">>
                 ELSE highlights
    IN  [k \in DOMAIN shown |-> "- " \o shown[k]]

\* _generate_description()
_generate_description(tech_info) ==
    LET description ==
            "A powerful " \o tech_info.primary_language \o " project"
            \o (IF tech_info.frameworks # <<>>
                THEN " built with **" \o JoinStr(Take(tech_info.frameworks, 3), ", ") \o "**"
                ELSE "")
            \o ". "
    IN  <<"##  About",
          "",
          description,
          "",
          ">  **Note:** This README was auto-generated using [README Generator](https://github.com/alxgraphy/readme-generator). ",
          "> Please customize it with your project's actual description, screenshots, and details!",
          "",
          "###  Highlights",
          "">>
        \o _generate_highlights(tech_info)

\* _generate_demo_section()
_generate_demo_section ==
    <<"##  Demo",
      "",
      "<div align=\"center\">",
      "",
      "###  Screenshots",
      "",
      "<table>",
      "  <tr>",
      "    <td><img src=\"screenshots/demo1.png\" alt=\"Screenshot 1\" width=\"400\"/></td>",
      "    <td><img src=\"screenshots/demo2.png\" alt=\"Screenshot 2\" width=\"400\"/></td>",
      "  </tr>",
      "  <tr>",
      "    <td align=\"center\"><em>Main Interface</em></td>",
      "    <td align=\"center\"><em>Feature Showcase</em></td>",
      "  </tr>",
      "</table>",
      "",
      ">  **[Live Demo](#)** |  **[Video Tutorial](#)**",
      "",
      "</div>",
      "",
      "---">>

\* _create_features_grid(): a feature is its text after the leading emoji,
\* and no feature of _generate_features holds ' - '
_create_features_grid(features) ==
    LET cell(i) ==
            (IF i > 1 /\ (i - 1) % 2 = 0 THEN <<"</tr>", "<tr>">> ELSE <<>>)
            \o <<"<td width=\"50%\">", "", "** " \o features[i] \o "**", "", "</td>">>
    IN  <<"<table>", "<tr>">>
        \o Flatten([i \in DOMAIN features |-> cell(i)])
        \o (IF Len(features) % 2 # 0 THEN <<"<td></td>">> ELSE <<>>)
        \o <<"</tr>", "</table>">>

\* _generate_features()
_generate_features(tech_info) ==
    LET detected ==
            (IF tech_info.has_tests
             THEN <<"Comprehensive test coverage with automated testing">> ELSE <<>>)
            \o (IF tech_info.has_ci
                THEN <<"Continuous Integration and Deployment pipeline">> ELSE <<>>)
            \o (IF tech_info.has_docs
                THEN <<"Well-documented codebase with inline comments">> ELSE <<>>)
            \o (IF "Docker" \in Range(tech_info.tools)
                THEN <<"Docker containerization for easy deployment">> ELSE <<>>)
            \o (IF "Kubernetes" \in Range(tech_info.tools)
                THEN <<"Kubernetes orchestration support">> ELSE <<>>)
        features ==
            Take(IF Len(detected) < 3
                 THEN detected \o <<"High performance and scalability",
                                    "Secure by design with best practices",
                                    "Clean and maintainable code architecture",
                                    "Fast development with hot reload",
                                    "Cross-platform compatibility">>
                 ELSE detected, 6)
    IN  <<"##  Features", "">> \o _create_features_grid(features)

\* the badge of one entry of the tech-stack section
StackBadge(name, color, logo) ==
    "![" \o name \o "](https://img.shields.io/badge/" \o name \o "-" \o color
    \o "?style=flat-square&logo=" \o logo \o "&logoColor=white)"

\* _generate_tech_stack(): empty when only the heading would be there
_generate_tech_stack(tech_info) ==
    LET langs == tech_info.languages
        fws == tech_info.frameworks
        tools == tech_info.tools
        lines ==
            <<"##  Tech Stack">>
            \o (IF langs # <<>>
                THEN <<"", "### Languages",
                       JoinStr([k \in DOMAIN langs |->
                                  StackBadge(langs[k], _get_language_color(langs[k]),
                                             Lower(langs[k]))], " ")>>
                ELSE <<>>)
            \o (IF fws # <<>>
                THEN <<"", "### Frameworks & Libraries",
                       JoinStr([k \in DOMAIN fws |->
                                  StackBadge(fws[k], _get_framework_color(fws[k]),
                                             Replace(Replace(Lower(fws[k]), ".", ""), " ", ""))],
                               " ")>>
                ELSE <<>>)
            \o (IF tools # <<>>
                THEN <<"", "### Tools & Platforms",
                       JoinStr([k \in DOMAIN tools |->
                                  StackBadge(tools[k], "2496ED", Lower(tools[k]))], " ")>>
                ELSE <<>>)
    IN  IF Len(lines) > 1 THEN lines ELSE <<>>


\* _generate_quick_start()
_generate_quick_start(project_name, tech_info) ==
    LET managers == Range(tech_info.package_managers)
        quick_commands ==
            <<"# Clone the repository",
              "git clone https://github.com/yourusername/" \o Slug(project_name) \o ".git",
              "">>
            \o (IF "npm" \in managers
                THEN <<"# Install dependencies", "npm install", "",
                       "# Run the project", "npm start">>
                ELSE IF "pip" \in managers
                THEN <<"# Install dependencies", "pip install -r requirements.txt", "",
                       "# Run the project", "python main.py">>
                ELSE <<"# Follow installation instructions below">>)
    IN  <<"##  Quick Start", "", "'''bash">> \o quick_commands \o <<"'''">>

\* _generate_installation()
_generate_installation(project_name, tech_info) ==
    LET managers == Range(tech_info.package_managers)
        primary_lang == tech_info.primary_language
        detected ==
            (IF "Node.js" \in Range(tech_info.frameworks) \/ "npm" \in managers
             THEN <<"- Node.js 16.x or higher">> ELSE <<>>)
            \o (IF primary_lang = "Python" THEN <<"- Python 3.8 or higher">> ELSE <<>>)
            \o (IF "Docker" \in Range(tech_info.tools)
                THEN <<"- Docker and Docker Compose">> ELSE <<>>)
            \o (IF "go mod" \in managers THEN <<"- Go 1.20 or higher">> ELSE <<>>)
        prereqs == IF detected = <<>>
                   THEN <<"- " \o primary_lang \o " (latest stable version)">>
                   ELSE detected
        install ==
            IF "pip" \in managers
            THEN <<"", "**2 Create virtual environment (recommended)**",
                   "'''bash",
                   "python -m venv venv",
                   "source venv/bin/activate  # On Windows: venv\\Scripts\\activate",
                   "'''",
                   "", "**3 Install dependencies**",
                   "'''bash",
                   "pip install -r requirements.txt",
                   "'''">>
            ELSE IF "poetry" \in managers
            THEN <<"", "**2 Install dependencies with Poetry**",
                   "'''bash", "poetry install", "'''">>
            ELSE IF "npm" \in managers
            THEN <<"", "**2 Install dependencies**",
                   "'''bash", "npm install", "# or", "yarn install", "'''">>
            ELSE IF "cargo" \in managers
            THEN <<"", "**2 Build the project**",
                   "'''bash", "cargo build --release", "'''">>
            ELSE IF "go mod" \in managers
            THEN <<"", "**2 Download dependencies**",
                   "'''bash", "go mod download", "'''">>
            ELSE <<>>
    IN  <<"##  Installation", "", "### Prerequisites">>
        \o prereqs
        \o <<"", "### Step-by-Step Guide",
             "", "**1 Clone the repository**",
             "'''bash",
             "git clone https://github.com/yourusername/" \o Slug(project_name) \o ".git",
             "cd " \o Slug(project_name),
             "'''">>
        \o install
        \o <<"", "**4 Set up environment variables**",
             "'''bash",
             "cp .env.example .env",
             "# Edit .env with your configuration",
             "'''">>

\* _generate_usage()
_generate_usage(tech_info) ==
    LET primary_lang == tech_info.primary_language
        frameworks == Range(tech_info.frameworks)
        basic ==
            IF "Django" \in frameworks
            THEN <<"'''bash",
                   "# Run migrations", "python manage.py migrate", "",
                   "# Create superuser", "python manage.py createsuperuser", "",
                   "# Run development server", "python manage.py runserver",
                   "'''",
                   "", "Visit 'http://localhost:8000' in your browser">>
            ELSE IF "Flask" \in frameworks \/ "FastAPI" \in frameworks
            THEN <<"'''bash",
                   "# Run the application", "python app.py", "# or",
                   "uvicorn main:app --reload  # For FastAPI",
                   "'''",
                   "", "API will be available at 'http://localhost:8000'">>
            ELSE IF "Streamlit" \in frameworks
            THEN <<"'''bash", "streamlit run app.py", "'''",
                   "", "App will open in your browser automatically">>
            ELSE IF "React" \in frameworks \/ "Next.js" \in frameworks
            THEN <<"'''bash",
                   "# Development mode", "npm run dev", "",
                   "# Build for production", "npm run build", "",
                   "# Start production server", "npm start",
                   "'''",
                   "", "Open 'http://localhost:3000'">>
            ELSE <<"'''bash",
                   "# Run the application",
                   IF primary_lang = "Python" THEN "python main.py"
                   ELSE IF primary_lang = "Go" THEN "go run main.go"
                   ELSE IF primary_lang = "Rust" THEN "cargo run"
                   ELSE IF primary_lang = "Node.js" \/ primary_lang = "JavaScript"
                   THEN "npm start"
                   ELSE "# See documentation for usage instructions",
                   "'''">>
    IN  <<"##  Usage", "", "### Basic Usage">>
        \o basic
        \o <<"", "### Examples",
             "", "'''bash",
             "# Example 1: Basic usage",
             "# Add your example here",
             "",
             "# Example 2: Advanced usage",
             "# Add your example here",
             "'''">>

\* _explain_structure()
_explain_structure(scan_results) ==
    LET dirs == scan_results.directories
        explanations ==
            (IF \E i \in DOMAIN dirs : Contains(dirs[i], "src")
             THEN <<"- **'src/'** - Source code and main application logic">> ELSE <<>>)
            \o (IF \E i \in DOMAIN dirs : Contains(Lower(dirs[i]), "test")
                THEN <<"- **'tests/'** - Test files and test utilities">> ELSE <<>>)
            \o (IF \E i \in DOMAIN dirs : Contains(Lower(dirs[i]), "doc")
                THEN <<"- **'docs/'** - Documentation files">> ELSE <<>>)
            \o (IF \E i \in DOMAIN dirs : Contains(Lower(dirs[i]), "config")
                THEN <<"- **'config/'** - Configuration files">> ELSE <<>>)
    IN  IF explanations = <<>>
        THEN <<"- See code structure above for file organization">>
        ELSE explanations

\* _generate_project_structure()
_generate_project_structure(scan_results) ==
    <<"##  Project Structure", "", "'''">>
    \o scan_results.file_tree
    \o <<"'''", "", "### Key Directories", "">>
    \o _explain_structure(scan_results)

\* _generate_roadmap()
_generate_roadmap ==
    <<"##  Roadmap",
      "",
      "- [x] Initial release",
      "- [ ] Add feature X",
      "- [ ] Improve performance",
      "- [ ] Add more documentation",
      "- [ ] Add integration tests",
      "- [ ] Release v2.0",
      "",
      "See the [open issues](https://github.com/yourusername/project/issues) for a full list of proposed features.">>

\* _generate_contributing()
_generate_contributing ==
    <<"##  Contributing",
      "",
      "Contributions make the open source community amazing! Any contributions you make are **greatly appreciated**.",
      "",
      "### How to Contribute",
      "",
      "1. **Fork** the Project",
      "2. **Create** your Feature Branch ('git checkout -b feature/AmazingFeature')",
      "3. **Commit** your Changes ('git commit -m 'Add some AmazingFeature'')",
      "4. **Push** to the Branch ('git push origin feature/AmazingFeature')",
      "5. **Open** a Pull Request",
      "",
      "### Development Guidelines",
      "",
      "- Write clear, commented code",
      "- Follow the existing code style",
      "- Add tests for new features",
      "- Update documentation as needed",
      "",
      "### Code of Conduct",
      "",
      "Please read our [Code of Conduct](CODE_OF_CONDUCT.md) before contributing.">>

\* a variant of _generate_license that names the license file found
_generate_license_named(scan_results) ==
    IF "license" \in DOMAIN scan_results.special_files
    THEN <<"##  License",
           "",
           "Distributed under the MIT License. See '"
             \o PathName(scan_results.special_files["license"])
             \o "' file for more information.">>
    ELSE <<"##  License",
           "",
           "This project is unlicensed. Please add a LICENSE file to specify terms of use.">>

\* _generate_license()
_generate_license(scan_results) ==
    IF "license" \in DOMAIN scan_results.special_files
    THEN <<"##  License",
           "",
           "Distributed under the MIT License. See 'LICENSE' file for more information.">>
    ELSE <<"##  License",
           "",
           "This project is unlicensed. Please add a LICENSE file to specify terms of use.",
           "",
           "Recommended licenses:",
           "- [MIT License](https://opensource.org/licenses/MIT) - Permissive",
           "- [GPL v3](https://www.gnu.org/licenses/gpl-3.0.en.html) - Copyleft",
           "- [Apache 2.0](https://opensource.org/licenses/Apache-2.0) - Permissive with patent grant">>

\* _generate_acknowledgments()
_generate_acknowledgments ==
    <<"##  Acknowledgments",
      "",
      "- Thanks to all contributors",
      "- Inspired by awesome open source projects",
      "- Built with amazing tools and frameworks">>

\* _generate_footer()
_generate_footer ==
    <<"---",
      "",
      "<div align=\"center\">",
      "",
      "** Star this repo if you find it helpful! **",
      "",
      "Made with  by [Your Name](https://github.com/yourusername)",
      "",
      "**[ Back to Top](#-project-name)**",
      "",
      "*Auto-generated using [README Generator](https://github.com/alxgraphy/readme-generator)*",
      "",
      "</div>">>

\* the list 'sections' of generate(), in its order
Sections(project_name, scan_results, tech_info) ==
    <<_generate_header(project_name),
      _generate_badges(project_name, scan_results, tech_info),
      _generate_description(tech_info),
      _generate_demo_section,
      _generate_features(tech_info),
      _generate_tech_stack(tech_info),
      _generate_quick_start(project_name, tech_info),
      _generate_installation(project_name, tech_info),
      _generate_usage(tech_info),
      _generate_project_structure(scan_results),
      _generate_roadmap,
      _generate_contributing,
      _generate_license(scan_results),
      _generate_acknowledgments,
      _generate_footer>>

RECURSIVE JoinBlank(_)
\* Python: '\n\n'.join(texts): a blank line between consecutive texts
JoinBlank(texts) ==
    IF Len(texts) = 0 THEN <<>>
    ELSE IF Len(texts) = 1 THEN texts[1]
    ELSE JoinBlank(SubSeq(texts, 1, Len(texts) \div 2)) \o <<"">>
         \o JoinBlank(SubSeq(texts, Len(texts) \div 2 + 1, Len(texts)))

\* Python: filter(None, sections): the texts that are not empty
NonEmpty(text) == text # <<>>

\* a variant of generate that joins all fifteen sections, empty ones too
generate_unfiltered(project_name, scan_results, tech_info) ==
    JoinBlank(Sections(project_name, scan_results, tech_info))

\* generate()
generate(project_name, scan_results, tech_info) ==
    JoinBlank(SelectSeq(Sections(project_name, scan_results, tech_info), NonEmpty))


-----------------------------------------------------------------------------
(* AIEnhancer *)

\* _prepare_context()
_prepare_context(scan_results, tech_info) ==
    <<"- Primary Language: " \o tech_info.primary_language>>
    \o (IF tech_info.languages # <<>>
        THEN <<"- Languages: " \o JoinStr(tech_info.languages, ", ")>> ELSE <<>>)
    \o (IF tech_info.frameworks # <<>>
        THEN <<"- Frameworks: " \o JoinStr(tech_info.frameworks, ", ")>> ELSE <<>>)
    \o (IF tech_info.package_managers # <<>>
        THEN <<"- Package Managers: " \o JoinStr(tech_info.package_managers, ", ")>>
        ELSE <<>>)
    \o <<"- File Count: " \o IntToStr(scan_results.file_count),
         "- Has Tests: " \o (IF tech_info.has_tests THEN "True" ELSE "False"),
         "- Has CI/CD: " \o (IF tech_info.has_ci THEN "True" ELSE "False")>>

\* the prompt of enhance()
Prompt(readme_content, context) ==
    <<"You are a technical writer helping to improve a README file.",
      "",
      "Here's the auto-generated README:",
      "">>
    \o readme_content
    \o <<"", "Project context:">>
    \o context
    \o <<"",
         "Please improve this README by:",
         "1. Writing a compelling, professional project description (2-3 sentences)",
         "2. Suggesting 3-5 realistic features based on the detected technologies",
         "3. Making the overall tone more engaging and clear",
         "",
         "Keep the same structure and sections, just improve the content. Do not add new sections.",
         "Return ONLY the improved README content, no explanations.">>

\* what client.messages.create can do: answer with a text block, raise for
\* the network or the quota, answer with a first block that has no text, or
\* answer with an empty content list
CallOutcomes == {"text", "network", "quota", "malformed", "empty"}

\* the texts an answer can hold
Replies == {<<"# Improved README", "", "A better description.">>, <<>>}

\* a variant of enhance_result that reads an empty content list as an empty
\* text instead of failing
enhance_result_empty_text(readme_content, outcome, reply) ==
    IF outcome = "text" THEN reply
    ELSE IF outcome = "empty" THEN <<>>
    ELSE readme_content

\* the part of enhance() from the remote call on: any exception raised by
\* the call or by message.content[0].text gives back readme_content
enhance_result(readme_content, outcome, reply) ==
    IF outcome = "text" THEN reply ELSE readme_content

\* a variant of KeyMissing that only tests for None
KeyIsNone(env) == env = <<>>

\* AIEnhancer.__init__: the key is missing when None or empty
KeyMissing(env) == env = <<>> \/ env[1] = ""

-----------------------------------------------------------------------------
(* The projects and environments the model runs on *)

MaxEntries == 2     \* entries of a generated project root
MaxChildren == 1    \* entries of a generated subdirectory
MaxNesting == 12    \* depth of the deepest generated chain of directories
MaxScans == 2       \* calls of scan() on one ProjectScanner
MaxCalls == 2       \* calls of enhance() on one AIEnhancer

RootPaths == {"/srv/proj", ".", "/home/latest/My App"}

RECURSIVE IndexPicks(_, _)
\* the strictly increasing sequences of at most n indices out of 1..len
IndexPicks(len, n) ==
    IF n = 0 THEN {<<>>}
    ELSE LET shorter == IndexPicks(len, n - 1)
         IN  shorter \cup
             {Append(p, i) : p \in {q \in shorter : Len(q) = n - 1}, i \in 1..len}

\* the subsequences of the sequence cands with at most n elements
Picks(cands, n) ==
    {[k \in DOMAIN p |-> cands[p[k]]] :
       p \in {q \in IndexPicks(Len(cands), n) :
                \A k \in 1..(Len(q) - 1) : q[k] < q[k + 1]}}

\* a listing names each entry once
DistinctNames(listing) ==
    \A i, j \in DOMAIN listing : listing[i].name = listing[j].name => i = j

ChildEntries ==
    <<File("main.py", ""), File(".gitignore", ""), File("util.js", ""),
      Dir("bin", TRUE, <<>>)>>

ChildListings == Picks(ChildEntries, MaxChildren)

RECURSIVE SetToSeq(_)
\* a finite set in some fixed order
SetToSeq(S) ==
    IF S = {} THEN <<>>
    ELSE LET x == CHOOSE y \in S : TRUE IN <<x>> \o SetToSeq(S \ {x})

RootEntries ==
    <<File("app.py", ""), File("yarn.lock", ""), File(".hidden", ""),
      File(".env.example", ""), File("LICENSE", ""), File("COPYING", "")>>
    \o SetToSeq({Dir("src", TRUE, c) : c \in ChildListings})
    \o SetToSeq({Dir("node_modules", TRUE, c) : c \in ChildListings})
    \o SetToSeq({Dir("locked", FALSE, c) : c \in ChildListings})

\* project roots of a few files and one level of subdirectories
BushyTrees == {t \in Picks(RootEntries, MaxEntries) : DistinctNames(t)}

RECURSIVE Chain(_)
\* k nested directories with one module in the innermost
Chain(k) ==
    IF k = 0 THEN <<File("mod.py", "")>> ELSE <<Dir("pkg", TRUE, Chain(k - 1))>>

ChainTrees == {Chain(k) : k \in 0..MaxNesting}

\* the directory of the Flask scenario, in every listing order
ScenarioEntries ==
    {File("app.py", ""), File("requirements.txt", "flask==2.0"), File("README.md", "")}

ScenarioTrees ==
    {t \in [1..3 -> ScenarioEntries] : \A i, j \in 1..3 : t[i] = t[j] => i = j}

\* a root with directories that cannot be listed, in every listing order
PermissionEntries ==
    {Dir("locked", FALSE, <<File("secret.py", "")>>),
     File("app.py", ""),
     Dir("src", TRUE, <<Dir("vault", FALSE, <<File("key.js", "")>>),
                        File("main.py", "")>>)}

PermissionTrees ==
    {t \in [1..3 -> PermissionEntries] : \A i, j \in 1..3 : t[i] = t[j] => i = j}

\* roots with symbolic links: cycles through the root and through a
\* subdirectory, a link to a file, a broken link and a link to itself
CycleTrees ==
    {<<File("app.py", ""), Link("loop", ".")>>,
     <<Link("loop", "."), File("app.py", "")>>,
     <<Dir("a", TRUE, <<File("mod.py", ""), Link("up", "a")>>)>>,
     <<File("app.py", ""), Link("alias.py", "app.py"), Link("gone", "missing"),
       Link("self", "self")>>}

\* roots with several candidates of one category of special files, with
\* candidates only in a subdirectory, and with the two-component candidate
SpecialTrees ==
    {<<File("README.rst", ""), File("README.md", ""),
       Dir("docs", TRUE, <<File("LICENSE", ""), File("Makefile", "")>>)>>,
     <<File("makefile", ""), File(".travis.yml", ""), File("Makefile", ""),
       Dir(".github", TRUE, <<Dir("workflows", TRUE, <<>>)>>)>>,
     <<Dir("workflows", TRUE, <<>>), Dir("README", TRUE, <<File("HISTORY.md", "")>>),
       File(".dockerignore", ""), Link("CHANGELOG.md", "missing"),
       Link("CHANGELOG.rst", "README/HISTORY.md")>>}

\* roots with a package manifest and a requirements file: a manifest that
\* names a framework, one that is not JSON, one that is a directory, and a
\* manifest under another candidate name of the category
ManifestTrees ==
    {<<File("package.json", ExpressManifest), File("index.js", "")>>,
     <<File("package.json", "{\"dependencies\": "),
       File("requirements.txt", "Django>=4 streamlit")>>,
     <<Dir("package.json", TRUE, <<>>), File("setup.py", "import pytest")>>,
     <<File("go.mod", ReactManifest), File("Pipfile", "")>>}

\* roots for the tool and package-manager heuristics: a YAML file next to
\* a file named after Kubernetes, a YAML file below a k8s directory, marker
\* files at depth, in another order than the table's and as part of a
\* longer name, and lock files
ToolTrees ==
    {<<File("deploy.yaml", ""), File("k8s-notes.txt", "")>>,
     <<Dir("k8s", TRUE, <<File("service.yml", "")>>)>>,
     <<Dir("sub", TRUE, <<File("pom.xml", "")>>), File("Cargo.toml.bak", ""),
       File("go.mod", "")>>,
     <<File("yarn.lock", ""), File("index.js", "")>>,
     <<File("package-lock.json", ""), File("poetry.lock", ""),
       File("pnpm-lock.yaml", "")>>}

Projects ==
    ({"/srv/proj"} \X (BushyTrees \cup ChainTrees \cup PermissionTrees
                          \cup CycleTrees \cup SpecialTrees
                          \cup ManifestTrees \cup ToolTrees))
    \cup (RootPaths \X ({<<>>} \cup ScenarioTrees))

-----------------------------------------------------------------------------
(* The state machine *)

\* ProjectScanner(project_path) has been constructed; nothing else has run
Init ==
    /\ \E p \in Projects : project_path = p[1] /\ tree = p[2]
    /\ environ = <<>>
    /\ installed = FALSE
    /\ files = <<>>
    /\ directories = <<>>
    /\ file_extensions = {}
    /\ scans = <<>>
    /\ tech = <<>>
    /\ document = <<>>
    /\ enhancer = "none"
    /\ enhanced = <<>>
    /\ api_calls = 0
    /\ scan_raised = "none"

\* the state after scan() has returned r.result, or has been left by the
\* exception r.self.raised: the dicts returned earlier hold the same two
\* lists, so they show the lists as they are now
Scanned(r) ==
    /\ files' = r.self.files
    /\ directories' = r.self.directories
    /\ file_extensions' = r.self.file_extensions
    /\ scan_raised' = r.self.raised
    /\ scans' =
         LET held == [i \in DOMAIN scans |->
                        [scans[i] EXCEPT !.files = r.self.files,
                                         !.directories = r.self.directories]]
         IN  IF r.self.raised = "none" THEN Append(held, r.result) ELSE held

\* scanner.scan()
Scan ==
    /\ Len(scans) < MaxScans
    /\ Scanned(scan([files |-> files, directories |-> directories,
                     file_extensions |-> file_extensions, raised |-> "none"],
                    project_path, tree))
    /\ UNCHANGED <<project_path, tree, environ, installed, tech, document,
                   enhancer, enhanced, api_calls>>

\* TechDetector(scans[i]).detect()
Detect(i) ==
    /\ i \in DOMAIN scans
    /\ tech' = <<[of |-> i, info |-> detect(scans[i], tree)]>>
    /\ UNCHANGED <<project_path, tree, environ, installed, files, directories,
                   file_extensions, scans, document, enhancer, enhanced, api_calls,
                   scan_raised>>

\* TemplateGenerator(project_name, scan_results, tech_info).generate() on
\* the last TechInfo and the dict it was detected from; 'sections' keeps the
\* local list of generate()
Generate ==
    /\ tech # <<>>
    /\ LET scan_results == scans[tech[1].of]
           name == scan_results.project_name
       IN  document' =
             <<[of |-> tech[1].of,
                tech_info |-> tech[1].info,
                sections |-> Sections(name, scan_results, tech[1].info),
                text |-> generate(name, scan_results, tech[1].info)]>>
    /\ UNCHANGED <<project_path, tree, environ, installed, files, directories,
                   file_extensions, scans, tech, enhancer, enhanced, api_calls,
                   scan_raised>>

\* AIEnhancer(): raises ValueError when the key is missing
NewEnhancer ==
    /\ enhancer = "none"
    /\ enhancer' = IF KeyMissing(environ) THEN "ValueError" ELSE "constructed"
    /\ UNCHANGED <<project_path, tree, environ, installed, files, directories,
                   file_extensions, scans, tech, document, enhanced, api_calls,
                   scan_raised>>

\* enhancer.enhance(document, scan_results, tech_info) without the anthropic
\* package: ImportError, before any client exists
EnhanceImportError ==
    /\ enhancer = "constructed"
    /\ document # <<>>
    /\ ~installed
    /\ Len(enhanced) < MaxCalls
    /\ enhanced' = Append(enhanced,
                     [raised |-> "ImportError", input |-> document[1].text,
                      output |-> <<>>, outcome |-> "none", calls |-> 0,
                      request |-> <<>>])
    /\ UNCHANGED <<project_path, tree, environ, installed, files, directories,
                   file_extensions, scans, tech, document, enhancer, api_calls,
                   scan_raised>>

\* enhancer.enhance(document, scan_results, tech_info): one remote call
Enhance(outcome, reply) ==
    /\ enhancer = "constructed"
    /\ document # <<>>
    /\ installed
    /\ Len(enhanced) < MaxCalls
    /\ LET readme_content == document[1].text
           context == _prepare_context(scans[document[1].of], document[1].tech_info)
       IN  enhanced' = Append(enhanced,
                         [raised |-> "none", input |-> readme_content,
                          output |-> enhance_result(readme_content, outcome, reply),
                          outcome |-> outcome, calls |-> 1,
                          request |-> Prompt(readme_content, context)])
    /\ api_calls' = api_calls + 1
    /\ UNCHANGED <<project_path, tree, environ, installed, files, directories,
                   file_extensions, scans, tech, document, enhancer,
                   scan_raised>>

\* the scanner, the detector and the generator
Next ==
    \/ Scan
    \/ \E i \in 1..MaxScans : Detect(i)
    \/ Generate

Spec == Init /\ [][Next]_vars

\* the projects the enhancer runs on
EnhancerProjects ==
    {<<"/srv/proj", <<>> >>,
     <<"/home/latest/My App",
       <<File("app.py", ""), File("requirements.txt", "flask==2.0"),
         File("README.md", "")>> >>}

InitEnhancer ==
    /\ \E p \in EnhancerProjects : project_path = p[1] /\ tree = p[2]
    /\ environ \in {<<>>, <<"">>, <<"sk-ant-api03-key">>}
    /\ installed \in BOOLEAN
    /\ files = <<>>
    /\ directories = <<>>
    /\ file_extensions = {}
    /\ scans = <<>>
    /\ tech = <<>>
    /\ document = <<>>
    /\ enhancer = "none"
    /\ enhanced = <<>>
    /\ api_calls = 0
    /\ scan_raised = "none"

\* the whole pipeline, the enhancer included
NextEnhancer ==
    \/ Scan
    \/ \E i \in 1..MaxScans : Detect(i)
    \/ Generate
    \/ NewEnhancer
    \/ EnhanceImportError
    \/ \E outcome \in CallOutcomes :
          \E reply \in (IF outcome = "text" THEN Replies ELSE {<<>>}) :
             Enhance(outcome, reply)

SpecEnhancer == InitEnhancer /\ [][NextEnhancer]_vars


-----------------------------------------------------------------------------
(* Properties of the scanner *)

\* the components of a scanned path below the project root
Components(p) == Parts(RelativeTo(p, project_path))

\* a name that may appear below the root in a scan result
NameAllowed(c) ==
    /\ c \notin IGNORE_DIRS
    /\ c \notin IGNORE_FILES
    /\ Slice(c, 1, 1) = "." => c \in {".env.example", ".editorconfig"}

\* C1: after scan(), no path in 'files' or 'directories' has, in any
\* component below the project root, a name of IGNORE_DIRS or IGNORE_FILES
\* or a name that begins with '.' other than '.env.example' and
\* '.editorconfig'.
C1_NoIgnoredPath ==
    \A i \in DOMAIN scans :
       \A p \in Range(scans[i].files) \cup Range(scans[i].directories) :
          \A k \in DOMAIN Components(p) : NameAllowed(Components(p)[k])

\* a scan has recorded a subdirectory of a root that holds a skipped entry,
\* and that subdirectory itself holds a skipped entry
C1_Witness ==
    /\ scans # <<>>
    /\ scans[1].dir_count > 0
    /\ \E i \in DOMAIN tree : ~NameAllowed(tree[i].name)
    /\ \E j \in DOMAIN tree :
          /\ tree[j].kind = "dir" /\ tree[j].readable /\ NameAllowed(tree[j].name)
          /\ \E k \in DOMAIN tree[j].children :
                ~NameAllowed(tree[j].children[k].name)

RECURSIVE CountFiles(_, _, _)
\* the number of files at or below the entries i.. of a listing found at
\* the given depth, leaving out skipped names, the contents of directories
\* that cannot be listed and what lies below the maximum depth
CountFiles(listing, i, depth) ==
    IF i > Len(listing) THEN 0
    ELSE (IF ~NameAllowed(listing[i].name) THEN 0
          ELSE IF KindOf(tree, listing[i]) = "file" THEN 1
          ELSE IF KindOf(tree, listing[i]) = "dir"
          THEN LET dir == Resolve(tree, listing[i], MAXSYMLINKS)[1]
               IN  IF dir.readable /\ depth + 1 <= max_depth
                   THEN CountFiles(dir.children, 1, depth + 1)
                   ELSE 0
          ELSE 0)
         + CountFiles(listing, i + 1, depth)

\* C2: the 'file_count' in the result of scan() equals the number of
\* non-ignored, non-hidden files strictly under the root, counted
\* recursively and bounded by the maximum depth, each file counted once.
C2_FileCountExact ==
    \A i \in DOMAIN scans : scans[i].file_count = CountFiles(tree, 1, 0)

\* C10: a ScanResult returned by scan() is immutable thereafter, so every
\* returned ScanResult still has file_count = length of 'files' and
\* dir_count = length of 'directories'.
C10_ScanResultImmutable ==
    \A i \in DOMAIN scans :
       /\ scans[i].file_count = Len(scans[i].files)
       /\ scans[i].dir_count = Len(scans[i].directories)

RECURSIVE Visible(_, _, _)
\* the entries that a traversal from the root can reach: <<path, kind>> for
\* every entry with an allowed name in the listing found at path and depth,
\* and below it in the directories that can be listed, down to the maximum
\* depth
Visible(path, listing, depth) ==
    UNION {LET e == listing[i]
               p == JoinPath(path, e.name)
               found == Resolve(tree, e, MAXSYMLINKS)
           IN  IF ~NameAllowed(e.name) \/ found = <<>> THEN {}
               ELSE IF found[1].kind = "file" THEN {<<p, "file">>}
               ELSE {<<p, "dir">>}
                    \cup (IF found[1].readable /\ depth + 1 <= max_depth
                          THEN Visible(p, found[1].children, depth + 1)
                          ELSE {}) :
             i \in DOMAIN listing}

\* the paths of one kind among a set of <<path, kind>>
PathsOf(entries, kind) == {v[1] : v \in {w \in entries : w[2] = kind}}

\* a directory entry that cannot be listed although its name is allowed
Unlistable(e) == e.kind = "dir" /\ ~e.readable /\ NameAllowed(e.name)

\* C11: if listing a subdirectory fails with a permission failure during
\* scan(), no error leaves scan(), the contents of that subdirectory are
\* absent from the result, and every other accessible entry with an allowed
\* name, siblings listed after the failing subdirectory included, is
\* recorded.
C11_PermissionFailureSkipped ==
    /\ scan_raised = "none"
    /\ \A i \in DOMAIN scans :
          /\ Range(scans[i].files) = PathsOf(Visible(project_path, tree, 0), "file")
          /\ Range(scans[i].directories) = PathsOf(Visible(project_path, tree, 0), "dir")

\* a scan has met a directory that cannot be listed, holding a file, and has
\* recorded the file and the directory listed after it
C11_Witness ==
    /\ scans # <<>>
    /\ scan_raised = "none"
    /\ \E j, k, l \in DOMAIN tree :
          /\ j < k /\ j < l
          /\ Unlistable(tree[j]) /\ tree[j].children # <<>>
          /\ tree[k].kind = "file"
          /\ JoinPath(project_path, tree[k].name) \in Range(scans[1].files)
          /\ tree[l].kind = "dir" /\ \E m \in DOMAIN tree[l].children : Unlistable(tree[l].children[m])
          /\ JoinPath(project_path, tree[l].name) \in Range(scans[1].directories)

-----------------------------------------------------------------------------
(* Properties of the detector and the generator *)

\* sub occurs in text as a run of consecutive lines
HasLines(text, sub) ==
    \E i \in 0..(Len(text) - Len(sub)) : SubSeq(text, i + 1, i + Len(sub)) = sub

\* C3: for a directory holding only app.py, requirements.txt with content
\* "flask==2.0" and README.md, scan() followed by detect() gives
\* primary_language = "Python", frameworks containing "Flask",
\* package_managers containing "pip", has_docs = true and has_tests = false,
\* for every listing order and every location of the directory.
C3_FlaskScenario ==
    (tree \in ScenarioTrees /\ tech # <<>>) =>
       /\ tech[1].info.primary_language = "Python"
       /\ "Flask" \in Range(tech[1].info.frameworks)
       /\ "pip" \in Range(tech[1].info.package_managers)
       /\ tech[1].info.has_docs
       /\ ~tech[1].info.has_tests

\* C4: for an empty directory, scan() gives file_count = 0, detect() gives
\* primary_language = "Unknown", and the document of generate() still
\* contains the header, footer, roadmap, contributing and license sections.
C4_EmptyDirectory ==
    tree = <<>> =>
       /\ \A i \in DOMAIN scans : scans[i].file_count = 0
       /\ tech # <<>> => tech[1].info.primary_language = "Unknown"
       /\ document # <<>> =>
            /\ HasLines(document[1].text,
                        <<"<div align=\"center\">", "",
                          "#  " \o PathName(project_path)>>)
            /\ HasLines(document[1].text, <<"##  Roadmap", "", "- [x] Initial release">>)
            /\ HasLines(document[1].text, <<"##  Contributing">>)
            /\ HasLines(document[1].text,
                        <<"##  License", "",
                          "This project is unlicensed. Please add a LICENSE file to specify terms of use.">>)
            /\ HasLines(document[1].text,
                        <<"*Auto-generated using [README Generator](https://github.com/alxgraphy/readme-generator)*",
                          "", "</div>">>)
            /\ document[1].text[Len(document[1].text)] = "</div>"

\* the README of an empty directory has been generated
C4_Witness ==
    /\ tree = <<>>
    /\ scans # <<>>
    /\ tech # <<>>
    /\ document # <<>>
    /\ Len(document[1].text) > 100

\* C5: for an empty directory the document of generate() omits the
\* tech-stack section and contains no language badge.
C5_NoLanguageBadge ==
    (tree = <<>> /\ document # <<>>) =>
       /\ ~HasLines(document[1].text, <<"##  Tech Stack">>)
       /\ \A k \in DOMAIN document[1].text :
             /\ ~Contains(document[1].text[k], "&logo=")
             /\ ~Contains(document[1].text[k],
                          "![" \o document[1].tech_info.primary_language \o "]")

\* the first line of each of the fifteen sections, in the order of generate()
Headings ==
    <<"<div align=\"center\">", "<div align=\"center\">", "##  About", "##  Demo",
      "##  Features", "##  Tech Stack", "##  Quick Start", "##  Installation",
      "##  Usage", "##  Project Structure", "##  Roadmap", "##  Contributing",
      "##  License", "##  Acknowledgments", "---">>

RECURSIVE OffsetOf(_, _)
\* the number of lines that the non-empty sections before section k, each
\* with its separating blank line, take up
OffsetOf(secs, k) ==
    IF k <= 1 THEN 0
    ELSE OffsetOf(secs, k - 1)
         + (IF secs[k - 1] # <<>> THEN Len(secs[k - 1]) + 1 ELSE 0)

\* C6: generate() returns exactly the non-empty sections, in the fixed
\* order header..footer, joined by a blank line; an empty section
\* contributes neither text nor a separator, and the tech-stack section is
\* empty exactly when languages, frameworks and tools are all empty.
C6_SectionsJoined ==
    document # <<>> =>
       LET secs == document[1].sections
           text == document[1].text
           info == document[1].tech_info
           kept == {k \in DOMAIN secs : secs[k] # <<>>}
       IN  /\ Len(secs) = 15
           /\ \A k \in kept :
                 /\ secs[k][1] = Headings[k]
                 /\ SubSeq(text, OffsetOf(secs, k) + 1,
                           OffsetOf(secs, k) + Len(secs[k])) = secs[k]
                 /\ (\E j \in kept : j > k) =>
                       text[OffsetOf(secs, k) + Len(secs[k]) + 1] = ""
           /\ Len(text) = OffsetOf(secs, 16) - 1
           /\ (secs[6] = <<>>) <=>
                 (info.languages = <<>> /\ info.frameworks = <<>> /\ info.tools = <<>>)

\* a README has been generated whose tech-stack section is empty
C6_Witness ==
    /\ document # <<>>
    /\ document[1].sections[6] = <<>>
    /\ document[1].sections[5] # <<>>
    /\ document[1].sections[7] # <<>>

\* scan results that differ in the license file found and in everything else
LicenseProbes ==
    {[project_name |-> "a", special_files |-> <<>>],
     [project_name |-> "b", special_files |-> [readme |-> "/b/README.md"]],
     [project_name |-> "c", special_files |-> [license |-> "/c/LICENSE"]],
     [project_name |-> "d", special_files |-> [license |-> "/d/COPYING",
                                               readme |-> "/d/README"]],
     [project_name |-> "e", special_files |-> [license |-> "/e/LICENSE.md"]]}

\* C7: the license section text is a function solely of whether the
\* 'license' key is present in special_files: inputs that agree on that
\* presence yield identical text, whatever their other fields, and inputs
\* that disagree yield different text.
C7_LicenseByPresence ==
    document # <<>> =>
       \A probe \in LicenseProbes :
          ("license" \in DOMAIN probe.special_files
              <=> "license" \in DOMAIN scans[document[1].of].special_files)
          <=> (_generate_license(probe) = document[1].sections[13])

\* a README has been generated for a project whose license file is COPYING
C7_Witness ==
    /\ document # <<>>
    /\ "license" \in DOMAIN scans[document[1].of].special_files
    /\ PathName(scans[document[1].of].special_files["license"]) = "COPYING"
    /\ document[1].sections[13] # <<>>

-----------------------------------------------------------------------------
(* Properties of the enhancer *)

\* C8: constructing the Enhancer when the credential environment variable
\* is absent or empty raises an error immediately, and no network call is
\* attempted in any execution in which the credential is absent.
C8_NoCredentialNoCall ==
    (environ = <<>> \/ environ = <<"">>) =>
       /\ enhancer \in {"none", "ValueError"}
       /\ enhanced = <<>>
       /\ api_calls = 0

\* the construction has been attempted with an empty credential
C8_Witness ==
    /\ environ = <<"">>
    /\ enhancer = "ValueError"
    /\ document # <<>>

\* C9: if the remote call made by enhance() fails in any way (network
\* error, quota error, malformed or empty response), enhance() returns
\* exactly the original document text passed in, does not raise, and makes
\* no further call attempt.
C9_FailureReturnsOriginal ==
    /\ \A k \in DOMAIN enhanced :
          enhanced[k].outcome \in {"network", "quota", "malformed", "empty"} =>
             /\ enhanced[k].output = enhanced[k].input
             /\ enhanced[k].raised = "none"
             /\ enhanced[k].calls = 1
    /\ api_calls = Cardinality({k \in DOMAIN enhanced : enhanced[k].outcome # "none"})

\* a remote call has failed after a README was passed in
C9_Witness ==
    \E k \in DOMAIN enhanced :
       /\ enhanced[k].outcome = "network"
       /\ Len(enhanced[k].input) > 100

-----------------------------------------------------------------------------
(* Further properties of the scanner and the detector *)

\* C12: primary_language is a member of the 'languages' detected from the
\* same ScanResult, or "Unknown"; it is "Unknown" exactly when no scanned
\* file has an extension of the extension-to-language mapping, that is
\* exactly when 'languages' is empty.
C12_PrimaryAmongLanguages ==
    tech # <<>> =>
       LET info == tech[1].info
           fs == scans[tech[1].of].files
           mapped == {i \in DOMAIN fs : Suffix(fs[i]) \in DOMAIN LANGUAGE_MAP}
       IN  /\ info.primary_language \in Range(info.languages) \cup {"Unknown"}
           /\ info.primary_language = "Unknown" <=> mapped = {}
           /\ info.languages = <<>> <=> mapped = {}

\* detect() has run on files of two languages, and the primary language is
\* one of them
C12_Witness ==
    /\ tech # <<>>
    /\ Len(tech[1].info.languages) >= 2
    /\ tech[1].info.primary_language \in Range(tech[1].info.languages)

\* project_path / candidate exists: the root holds an entry of that name
\* (for the two-component candidate: a directory of the first name holding
\* an entry of the second), links followed
AtRoot(candidate) ==
    IF Contains(candidate, "/")
    THEN \E i \in DOMAIN tree :
            /\ tree[i].name = Parts(candidate)[1]
            /\ KindOf(tree, tree[i]) = "dir"
            /\ \E e \in Range(Resolve(tree, tree[i], MAXSYMLINKS)[1].children) :
                  e.name = Parts(candidate)[2] /\ KindOf(tree, e) # "none"
    ELSE \E i \in DOMAIN tree :
            tree[i].name = candidate /\ KindOf(tree, tree[i]) # "none"

\* C13: special-file discovery records, for each of the nine categories,
\* the first candidate in the priority order of the category that exists
\* directly under the project root, never a match found only in a
\* subdirectory; a category without an existing candidate has no entry, and
\* a candidate of lower priority is never recorded when one of higher
\* priority exists.
C13_FirstCandidateAtRoot ==
    \A i \in DOMAIN scans :
       /\ Len(important) = 9
       /\ DOMAIN scans[i].special_files \subseteq {important[k][1] : k \in DOMAIN important}
       /\ \A k \in DOMAIN important :
             LET category == important[k][1]
                 candidates == important[k][2]
                 present == {j \in DOMAIN candidates : AtRoot(candidates[j])}
             IN  IF present = {}
                 THEN category \notin DOMAIN scans[i].special_files
                 ELSE /\ category \in DOMAIN scans[i].special_files
                      /\ \E j \in present :
                            /\ \A l \in present : j <= l
                            /\ scans[i].special_files[category]
                                  = JoinPath(project_path, candidates[j])

\* a scan of a root that lists README.rst before README.md and holds a
\* LICENSE only in a subdirectory
C13_Witness ==
    /\ scans # <<>>
    /\ \E i, j \in DOMAIN tree :
          i < j /\ tree[i].name = "README.rst" /\ tree[j].name = "README.md"
    /\ ~AtRoot("LICENSE")
    /\ \E i \in DOMAIN tree :
          \E e \in Range(tree[i].children) : e.name = "LICENSE"
    /\ "readme" \in DOMAIN scans[1].special_files

\* the frameworks with an indicator that is a substring of the path of a
\* scanned file
PathIndicated(paths) ==
    {FRAMEWORK_INDICATORS[k][1] : k \in
       {k \in DOMAIN FRAMEWORK_INDICATORS :
          \E p \in paths : \E indicator \in Range(FRAMEWORK_INDICATORS[k][2]) :
             Contains(p, indicator)}}

\* the text of the special file of a category as the disk holds it, as
\* <<text>>; <<>> when the category has no entry or the entry is not a file
SpecialText(sr, category) ==
    IF category \notin DOMAIN sr.special_files THEN <<>>
    ELSE LET e == Lookup(tree, RelativeTo(sr.special_files[category], sr.project_path))
         IN  IF e # <<>> /\ e[1].kind = "file" THEN <<e[1].content>> ELSE <<>>

\* the frameworks of the dependency keys of the package manifest; none when
\* the manifest cannot be read or parsed
ManifestIndicated(sr) ==
    LET text == SpecialText(sr, "package")
        keyed == [key \in {"react", "next", "vue", "express", "@angular/core"} |->
                    CASE key = "react" -> "React" [] key = "next" -> "Next.js"
                      [] key = "vue" -> "Vue.js"  [] key = "express" -> "Express"
                      [] key = "@angular/core" -> "Angular"]
    IN  IF text = <<>> \/ json_loads(text[1]) = <<>> THEN {}
        ELSE {keyed[key] : key \in
                DOMAIN keyed \cap (json_loads(text[1])[1].dependencies
                                   \cup json_loads(text[1])[1].devDependencies)}

\* the frameworks named, in any letter case, in the requirements text; none
\* when the text cannot be read
RequirementsIndicated(sr) ==
    LET text == SpecialText(sr, "requirements")
        named == [word \in {"django", "flask", "fastapi", "streamlit", "pytest"} |->
                    CASE word = "django" -> "Django" [] word = "flask" -> "Flask"
                      [] word = "fastapi" -> "FastAPI"
                      [] word = "streamlit" -> "Streamlit"
                      [] word = "pytest" -> "Pytest"]
    IN  IF text = <<>> THEN {}
        ELSE {named[word] : word \in
                {w \in DOMAIN named : Contains(Lower(text[1]), w)}}

\* C14: framework detection is deterministic: a second run on the same
\* ScanResult and the same manifest and requirements contents gives the
\* result of the first; the result is exactly the sorted union of the three
\* heuristics (indicators in paths, dependency keys of the manifest, names
\* in the requirements text), and a manifest or requirements file that
\* cannot be read or parsed contributes nothing and raises nothing.
C14_FrameworksUnion ==
    tech # <<>> =>
       LET sr == scans[tech[1].of]
       IN  /\ tech[1].info.frameworks
                = SortedSet(PathIndicated(Range(sr.files))
                            \cup ManifestIndicated(sr)
                            \cup RequirementsIndicated(sr))
           /\ detect(sr, tree).frameworks = tech[1].info.frameworks

\* detect() has run on a root whose package manifest is not JSON and whose
\* requirements name Django
C14_Witness ==
    /\ tech # <<>>
    /\ SpecialText(scans[tech[1].of], "package") # <<>>
    /\ json_loads(SpecialText(scans[tech[1].of], "package")[1]) = <<>>
    /\ "Django" \in Range(tech[1].info.frameworks)
    /\ "Django" \notin PathIndicated(Range(scans[tech[1].of].files))

\* the language of each scanned file with a mapped extension, in scanned
\* order
LanguagesInOrder(fs) ==
    LET mapped == SelectSeq(fs, LAMBDA f : Suffix(f) \in DOMAIN LANGUAGE_MAP)
    IN  [i \in DOMAIN mapped |-> LANGUAGE_MAP[Suffix(mapped[i])]]

\* the number of files of a language
FilesOf(ls, l) == Cardinality({i \in DOMAIN ls : ls[i] = l})

\* the position of the first file of a language
FirstOf(ls, l) == CHOOSE i \in DOMAIN ls : ls[i] = l /\ \A j \in 1..(i - 1) : ls[j] # l

C16_KubernetesSingleFile ==
    tech # <<>> =>
       ("Kubernetes" \in Range(tech[1].info.tools) =>
          \E f \in Range(scans[tech[1].of].files) :
             /\ Suffix(f) \in {".yaml", ".yml"}
             /\ Contains(f, "k8s") \/ Contains(f, "kubernetes"))

\* the position of a package manager in the table of the detector
TableIndex(manager) ==
    CHOOSE k \in DOMAIN manager_indicators : manager_indicators[k][1] = manager

\* C17: for each of the nine known package managers, detect() reports the
\* manager if and only if one of its marker filenames equals the name of
\* some discovered file, at any depth, and a marker that is only part of a
\* name does not count; several managers may be reported, each once, in
\* the order of the table.
C17_PackageManagersByName ==
    tech # <<>> =>
       LET reported == tech[1].info.package_managers
           names == {PathName(f) : f \in Range(scans[tech[1].of].files)}
       IN  /\ Len(manager_indicators) = 9
           /\ \A k \in DOMAIN manager_indicators :
                 manager_indicators[k][1] \in Range(reported)
                    <=> \E marker \in manager_indicators[k][2] : marker \in names
           /\ \A a \in DOMAIN reported :
                 \E k \in DOMAIN manager_indicators : reported[a] = manager_indicators[k][1]
           /\ \A a, b \in DOMAIN reported :
                 a < b => TableIndex(reported[a]) < TableIndex(reported[b])

\* detect() has run on a root that lists pom.xml in a subdirectory before
\* go.mod and holds Cargo.toml.bak: go mod and maven are reported, in the
\* order of the table, and cargo is not
C17_Witness ==
    /\ tech # <<>>
    /\ tech[1].info.package_managers = <<"go mod", "maven">>
    /\ \E f \in Range(scans[tech[1].of].files) : Contains(f, "Cargo.toml")
    /\ \E f \in Range(scans[tech[1].of].files) :
          PathName(f) = "pom.xml" /\ NumParts(RelativeTo(f, project_path)) = 2

\* the level of a recorded path: the number of its components below the
\* project root (the root is level 0, its items are at level 1)
Level(p) == NumParts(RelativeTo(p, project_path))

\* C18: scan() returns on every tree, trees with cycles of directory links
\* included, because the recursion is cut at depth 10: nothing inside a
\* directory nested more than 10 levels below the root is recorded, so
\* every recorded file lies in a directory of level 10 at most, and a
\* recorded directory is at level 11 at most, where it appears without
\* its contents.
C18_DepthBounded ==
    \A i \in DOMAIN scans :
       /\ \A f \in Range(scans[i].files) : Level(f) <= 11
       /\ \A d \in Range(scans[i].directories) : Level(d) <= 11
       /\ \A d \in Range(scans[i].directories) :
             Level(d) = 11 =>
                \A p \in Range(scans[i].files) \cup Range(scans[i].directories) :
                   ~StartsWith(p, d \o "/")

\* scan() has returned on a root with a link to the root itself: the file
\* of the root is recorded once per level 0 to 10, and the link is recorded
\* as a directory down to level 11
C18_Witness ==
    /\ scans # <<>>
    /\ \E i \in DOMAIN tree : tree[i].kind = "link" /\ tree[i].target = "."
    /\ scans[1].file_count = 11
    /\ scans[1].dir_count = 11
    /\ \E d \in Range(scans[1].directories) : Level(d) = 11

\* C19: every marker filename of the package-manager table is effective on
\* the output of the scanner: when a marker file (yarn.lock,
\* package-lock.json and poetry.lock among them) lies directly in the
\* project root, detect() on the result of scan() reports its manager.
C19_EveryMarkerEffective ==
    tech # <<>> =>
       \A k \in DOMAIN manager_indicators :
          (\E i \in DOMAIN tree :
              /\ tree[i].name \in manager_indicators[k][2]
              /\ KindOf(tree, tree[i]) = "file")
          => manager_indicators[k][1] \in Range(tech[1].info.package_managers)

\* the TechInfo of a project with the same contents at another root path
TechInfoAt(root) ==
    detect(scan([files |-> <<>>, directories |-> <<>>, file_extensions |-> {},
                 raised |-> "none"], root, tree).result,
           tree)

\* C20: the TechInfo of scan() followed by detect() depends only on the
\* tree beneath the project root: the same contents at another absolute
\* root path give the same frameworks, tools, has_tests and has_docs.
C20_RootIndependent ==
    tech # <<>> =>
       \A root \in RootPaths :
          /\ tech[1].info.frameworks = TechInfoAt(root).frameworks
          /\ tech[1].info.tools = TechInfoAt(root).tools
          /\ tech[1].info.has_tests = TechInfoAt(root).has_tests
          /\ tech[1].info.has_docs = TechInfoAt(root).has_docs

====
